---- MODULE Spec2Model ----
(***************************************************************************)
(* A model of vimagination.zapto.org/jsonrpc: the Client (request tracker  *)
(* and notification registry of src/unnamed/part_000), the Server          *)
(* (dispatcher of src/rpc.go) and the ClientServer that is both on one     *)
(* conn (src/clientserver.go), with the JSON frames they exchange.         *)
(***************************************************************************)
EXTENDS Integers, Sequences, FiniteSets, Bags, TLC

\* ------------------------------------------------------------------ bounds
MaxCalls == 2      \* Request calls made on the client
MaxClosers == 2    \* Close calls made on the client
MaxFrames == 3     \* frames the peer writes to a client that stands alone
MaxWaits == 2      \* Await / Subscribe calls made on the client
MaxRequests == 3   \* request frames the peer writes to a server that stands alone
MaxPeerFrames == 3 \* frames the peer writes to a ClientServer

Calls == 1 .. MaxCalls
Closers == 1 .. MaxClosers
NoChan == 0        \* no channel: channels are named by the call that made them
NoHandler == 0     \* no goroutine: the goroutines are numbered from 1

WaitIDs == {-1}
Callbacks == {"cb1", "cb2"}

\* ------------------------------------------------------------- JSON values
\* A JSON value as it stands on the wire; Absent is a field that is not there.
Absent == [k |-> "absent"]
Num(n) == [k |-> "num", n |-> n]
Str(s) == [k |-> "str", s |-> s]
ErrObj(code, message, data) ==
  [k |-> "errobj", code |-> code, message |-> message, data |-> data]

\* One Write call on a stream: a whole JSON object (json.Encoder.Encode), or
\* literal bytes.
Obj(id, result, error) == [k |-> "obj", id |-> id, result |-> result, error |-> error]
Lit(b) == [k |-> "lit", b |-> b]
Arr(v) == [k |-> "arr", v |-> v]
Req(id, method, params) == [k |-> "req", id |-> id, method |-> method, params |-> params]
Mixed(id, method, params, result) ==
  [k |-> "mixed", id |-> id, method |-> method, params |-> params, result |-> result]
Digits(n) == [k |-> "digits", n |-> n]            \* strconv.AppendInt
Bytes(v) == [k |-> "bytes", v |-> v]              \* the bytes of a json.RawMessage

\* ---------------------------------------------------------------- Go values
Nil == [k |-> "nil"]
Raw(v) == [k |-> "raw", v |-> v]                 \* json.RawMessage
GoInt(n) == [k |-> "int", n |-> n]               \* int
GoInts(v) == [k |-> "ints", v |-> v]               \* [2]int
Func == [k |-> "func"]                           \* a func value
ErrorString(s) == [k |-> "errorString", s |-> s] \* errors.New(s)
Error(code, message, data) ==
  [k |-> "Error", Code |-> code, Message |-> message, Data |-> data]
ErrExisting == "existing waiter"

clientResponse(id, result, error) == [ID |-> id, Result |-> result, Error |-> error]
clientRequest(id, method, params) == [ID |-> id, Method |-> method, Params |-> params]
request(method, params, id) == [Method |-> method, Params |-> params, ID |-> id]
Response(id, result, error) == [ID |-> id, Result |-> result, Error |-> error]
wait(keep, response) == [keep |-> keep, response |-> response]

\* The response Close hands to every pending call.
ConnClosed == clientResponse(0, Nil, Error(0, "conn closed", Nil))

VARIABLES
  mu,        \* clientHandler.mu: "free", or who holds it
  nextID,    \* clientHandler.nextID
  requests,  \* clientHandler.requests: ID -> channel
  waits,     \* clientHandler.waits: ID -> wait
  calls,     \* the Request calls: where each stands, its ID, what it received
  rd,        \* the read loop, Client.respond
  closers,   \* the Close calls
  cbs,       \* the callback goroutines started by handleResponse (a bag)
  closed,    \* closer.Close has been called on the client's stream
  cout,      \* the request frames the client has written
  nframes,   \* frames decoded by the read loop
  lastWait,  \* the last Await / Subscribe call: its id and what it returned
  srv,       \* Server.Handle: "decode", or "returned"
  handlers,  \* the handleRequest goroutines, in the order they were started
  encoderLock, \* Server.encoderLock: NoHandler, or the goroutine that holds it
  cin,       \* what has been written to the server's writer (for a ClientServer,
             \* the conn it shares with the client side) and not yet read
  resps      \* the handleResponse goroutines started by ClientServer.Handle

cvars == <<mu, nextID, requests, waits, calls, rd, closers, cbs, closed, cout,
           nframes, lastWait>>
svars == <<srv, handlers, encoderLock, cin>>
pvars == <<resps>>
vars == <<cvars, svars, pvars>>

\* --------------------------------------------------------------- the codec
\* json.Decoder.Decode into a clientResponse, of one object on the wire.
\* ok = FALSE: Decode returns an error (literal bytes that open no object, or
\* a field of the wrong JSON type).
DecodeInt(v) == IF v.k = "num" THEN v.n ELSE 0
DecodeError(v) ==
  IF v.k = "errobj" THEN Error(v.code, v.message, IF v.data = Absent THEN Nil ELSE v.data)
  ELSE Nil
DecodeClientResponse(w) ==
  IF w.k # "obj" THEN [ok |-> FALSE, resp |-> clientResponse(0, Nil, Nil)]
  ELSE [ok |-> /\ w.id.k \in {"num", "absent"}
               /\ w.error.k \in {"errobj", "absent"},
        resp |-> clientResponse(DecodeInt(w.id),
                                IF w.result = Absent THEN Nil ELSE Raw(w.result),
                                DecodeError(w.error))]

\* json.Marshal of a Go value.
Marshal(v) ==
  CASE v.k = "int" -> Num(v.n)
    [] v.k = "ints" -> Arr(v.v)
    [] v.k = "raw" -> v.v

\* json.Marshal returns an error for a value of a type JSON has no form for.
Encodable(v) == v.k # "func"

\* json.Encoder.Encode of a clientRequest: params is omitted when nil.
EncodeClientRequest(r) ==
  Req(Num(r.ID), Str(r.Method), IF r.Params = Nil THEN Absent ELSE Marshal(r.Params))

\* What a caller of a client that stands alone may ask for.
Inputs == {[method |-> "add", params |-> GoInts(<<5, 6>>)]}

\* What the peer of a client that stands alone may write.
PeerWrites ==
  {Obj(Num(i), Num(r), Absent) : i \in {-1, 0, 1}, r \in {5, 6}}
    \cup {Obj(Num(0), Absent, ErrObj(1, "fail", Absent))}
    \cup {Lit(<<"x">>)}

\* ---------------------------------------------------------------- helpers
MapPut(m, key, v) == [x \in DOMAIN m \cup {key} |-> IF x = key THEN v ELSE m[x]]
MapDelete(m, key) == [x \in DOMAIN m \ {key} |-> m[x]]
EmptyMap == [x \in {} |-> 0]

IdleCall == [pc |-> "idle", id |-> -1, method |-> "", params |-> Nil, resp |-> clientResponse(0, Nil, Nil),
             via |-> "none", ret |-> [result |-> Nil, err |-> Nil]]
IdleCloser == [pc |-> "idle", todo |-> {}, cur |-> NoChan, began |-> {}]
ReadLoop(pc, resp, ch) == [pc |-> pc, resp |-> resp, ch |-> ch]
Decoding == ReadLoop("decode", clientResponse(0, Nil, Nil), NoChan)

Init ==
  /\ mu = "free"
  /\ nextID = 0
  /\ requests = EmptyMap
  /\ waits = EmptyMap
  /\ calls = [c \in Calls |-> IdleCall]
  /\ rd = Decoding
  /\ closers = [k \in Closers |-> IdleCloser]
  /\ cbs = EmptyBag
  /\ closed = FALSE
  /\ cout = <<>>
  /\ nframes = 0
  /\ lastWait = [n |-> 0, id |-> 0, err |-> "none"]
  /\ srv = "decode"
  /\ handlers = <<>>
  /\ encoderLock = NoHandler
  /\ cin = <<>>
  /\ resps = <<>>

\* ----------------------------------------------------------------- Request
\* Request with the increment of line 111 left out.
RequestSameID(c, method, params) ==
  /\ calls[c].pc = "idle"
  /\ mu = "free"
  /\ calls' = [calls EXCEPT ![c].pc = "encode", ![c].id = nextID,
                            ![c].method = method, ![c].params = params]
  /\ nextID' = nextID
  /\ requests' = MapPut(requests, nextID, c)
  /\ UNCHANGED <<svars, pvars, mu, waits, rd, closers, cbs, closed, cout, nframes, lastWait>>

\* Request, lines 106-114: make the channel, take the next ID, register.
Request(c, method, params) ==
  /\ calls[c].pc = "idle"
  /\ mu = "free"
  /\ calls' = [calls EXCEPT ![c].pc = "encode", ![c].id = nextID,
                            ![c].method = method, ![c].params = params]
  /\ nextID' = nextID + 1
  /\ requests' = MapPut(requests, nextID, c)
  /\ UNCHANGED <<svars, pvars, mu, waits, rd, closers, cbs, closed, cout, nframes, lastWait>>

\* Request, lines 116-120: encode the request frame. Encode writes nothing
\* and returns an error when the params cannot be marshalled or the stream
\* is closed; the error is dropped, and the call goes on to its receive.
RequestEncode(c) ==
  /\ calls[c].pc = "encode"
  /\ calls' = [calls EXCEPT ![c].pc = "recv"]
  /\ cout' = IF closed \/ ~Encodable(calls[c].params) THEN cout
             ELSE Append(cout, EncodeClientRequest(
                      clientRequest(calls[c].id, calls[c].method, calls[c].params)))
  /\ UNCHANGED <<svars, pvars, mu, nextID, requests, waits, rd, closers, cbs, closed, nframes, lastWait>>

\* Request, lines 122-128: what the call returns for the response it received.
RequestReturn(resp) ==
  IF resp.Error # Nil THEN [result |-> Nil, err |-> resp.Error]
  ELSE [result |-> resp.Result, err |-> Nil]

\* The receive of line 122 meeting a send on the call's channel.
Receive(c, resp, via) ==
  [calls EXCEPT ![c].pc = "done", ![c].resp = resp, ![c].via = via,
                ![c].ret = RequestReturn(resp)]

\* ------------------------------------------------------------ the read loop
\* Decode as the claim of C4 would have it: on an error every pending call is
\* handed the closed-connection error.
DecodeWakes(w) ==
  /\ rd.pc = "decode"
  /\ ~closed
  /\ LET d == DecodeClientResponse(w) IN
       /\ rd' = IF d.ok THEN ReadLoop("handle", d.resp, NoChan)
                ELSE ReadLoop("stopped", rd.resp, NoChan)
       /\ calls' = IF d.ok THEN calls
                   ELSE [c \in Calls |->
                           IF calls[c].pc = "recv" /\ calls[c].id \in DOMAIN requests
                           THEN [calls[c] EXCEPT !.pc = "done", !.resp = ConnClosed,
                                   !.via = "close", !.ret = RequestReturn(ConnClosed)]
                           ELSE calls[c]]
  /\ nframes' = nframes + 1
  /\ UNCHANGED <<mu, nextID, requests, waits, closers, cbs, closed, cout, lastWait>>

\* Client.respond, lines 68-72: decode the next frame w; on an error, return.
Decode(w) ==
  /\ rd.pc = "decode"
  /\ ~closed
  /\ LET d == DecodeClientResponse(w) IN
       rd' = IF d.ok THEN ReadLoop("handle", d.resp, NoChan)
             ELSE ReadLoop("stopped", rd.resp, NoChan)
  /\ nframes' = nframes + 1
  /\ UNCHANGED <<mu, nextID, requests, waits, calls, closers, cbs, closed, cout, lastWait>>

\* Client.respond, lines 70-72, on a stream that Close has closed.
DecodeClosed ==
  /\ rd.pc = "decode"
  /\ closed
  /\ rd' = ReadLoop("stopped", rd.resp, NoChan)
  /\ UNCHANGED <<svars, pvars, mu, nextID, requests, waits, calls, closers, cbs, closed, cout,
                 nframes, lastWait>>

\* handleResponse as a plausible bug would have it: the response goes to some
\* pending call, whatever its ID (AnyChan); the entry found is not deleted
\* (KeepEntry); a one-shot wait is not deleted (KeepWait); a kept wait is
\* deleted (DropWait).
handleResponseBug(bug) ==
  /\ rd.pc = "handle"
  /\ mu = "free"
  /\ LET resp == rd.resp IN
       IF resp.ID >= 0
       THEN IF resp.ID \in DOMAIN requests
            THEN /\ requests' = IF bug = "KeepEntry" THEN requests
                                ELSE MapDelete(requests, resp.ID)
                 /\ \E id \in DOMAIN requests :
                      /\ bug # "AnyChan" => id = resp.ID
                      /\ rd' = ReadLoop("send", resp, requests[id])
                 /\ mu' = "respond"
                 /\ UNCHANGED <<waits, cbs>>
            ELSE /\ rd' = Decoding
                 /\ UNCHANGED <<requests, waits, cbs, mu>>
       ELSE IF resp.ID \in DOMAIN waits
            THEN /\ waits' = IF waits[resp.ID].keep = (bug \notin {"KeepWait", "DropWait"})
                             THEN waits
                             ELSE MapDelete(waits, resp.ID)
                 /\ cbs' = cbs (+) SetToBag({[cb |-> waits[resp.ID].response,
                                              data |-> resp.Result]})
                 /\ rd' = Decoding
                 /\ UNCHANGED <<requests, mu>>
            ELSE /\ rd' = Decoding
                 /\ UNCHANGED <<requests, waits, cbs, mu>>
  /\ UNCHANGED <<svars, pvars, nextID, calls, closers, closed, cout, nframes, lastWait>>

handleResponseAnyChan == handleResponseBug("AnyChan")
handleResponseKeepEntry == handleResponseBug("KeepEntry")
handleResponseKeepWait == handleResponseBug("KeepWait")
handleResponseDropWait == handleResponseBug("DropWait")

\* handleResponse with the go of line 92 left out: the callback is called on
\* the read loop, under the mutex.
handleResponseInline ==
  /\ rd.pc = "handle"
  /\ mu = "free"
  /\ LET resp == rd.resp IN
       IF resp.ID >= 0
       THEN IF resp.ID \in DOMAIN requests
            THEN /\ requests' = MapDelete(requests, resp.ID)
                 /\ rd' = ReadLoop("send", resp, requests[resp.ID])
                 /\ mu' = "respond"
                 /\ UNCHANGED <<waits, cbs>>
            ELSE /\ rd' = Decoding
                 /\ UNCHANGED <<requests, waits, cbs, mu>>
       ELSE IF resp.ID \in DOMAIN waits
            THEN /\ waits' = IF waits[resp.ID].keep THEN waits
                             ELSE MapDelete(waits, resp.ID)
                 /\ cbs' = cbs (+) SetToBag({[cb |-> waits[resp.ID].response,
                                              data |-> resp.Result]})
                 /\ rd' = ReadLoop("callback", resp, NoChan)
                 /\ mu' = "respond"
                 /\ UNCHANGED requests
            ELSE /\ rd' = Decoding
                 /\ UNCHANGED <<requests, waits, cbs, mu>>
  /\ UNCHANGED <<svars, pvars, nextID, calls, closers, closed, cout, nframes, lastWait>>

\* handleResponse, lines 79-96, up to the send of line 84 (which blocks with
\* the mutex held until the call receives) or else to the unlock.
handleResponse ==
  /\ rd.pc = "handle"
  /\ mu = "free"
  /\ LET resp == rd.resp IN
       IF resp.ID >= 0
       THEN IF resp.ID \in DOMAIN requests
            THEN /\ requests' = MapDelete(requests, resp.ID)
                 /\ rd' = ReadLoop("send", resp, requests[resp.ID])
                 /\ mu' = "respond"
                 /\ UNCHANGED <<waits, cbs>>
            ELSE /\ rd' = Decoding
                 /\ UNCHANGED <<requests, waits, cbs, mu>>
       ELSE IF resp.ID \in DOMAIN waits
            THEN /\ waits' = IF waits[resp.ID].keep THEN waits
                             ELSE MapDelete(waits, resp.ID)
                 /\ cbs' = cbs (+) SetToBag({[cb |-> waits[resp.ID].response,
                                              data |-> resp.Result]})
                 /\ rd' = Decoding
                 /\ UNCHANGED <<requests, mu>>
            ELSE /\ rd' = Decoding
                 /\ UNCHANGED <<requests, waits, cbs, mu>>
  /\ UNCHANGED <<svars, pvars, nextID, calls, closers, closed, cout, nframes, lastWait>>

\* handleResponse, lines 84 and 96: the send meets the call's receive, then
\* the mutex is released and the loop decodes again.
handleResponseSend ==
  /\ rd.pc = "send"
  /\ calls[rd.ch].pc = "recv"
  /\ calls' = Receive(rd.ch, rd.resp, "frame")
  /\ rd' = Decoding
  /\ mu' = "free"
  /\ UNCHANGED <<svars, pvars, nextID, requests, waits, closers, cbs, closed, cout, nframes, lastWait>>

\* A callback goroutine started at line 92 runs to its end.
CallbackReturn(x) ==
  /\ BagIn(x, cbs)
  /\ cbs' = cbs (-) SetToBag({x})
  /\ UNCHANGED <<svars, pvars, mu, nextID, requests, waits, calls, rd, closers, closed, cout,
                 nframes, lastWait>>

\* --------------------------------------------------------- Await, Subscribe
\* wait without the check of lines 162-164: the new registration overwrites.
WaitOverwrite(id, cb, keep) ==
  /\ mu = "free"
  /\ lastWait.n < MaxWaits
  /\ waits' = MapPut(waits, id, wait(keep, cb))
  /\ lastWait' = [n |-> lastWait.n + 1, id |-> id,
                  err |-> IF id \in DOMAIN waits THEN ErrExisting ELSE "nil"]
  /\ UNCHANGED <<svars, pvars, mu, nextID, requests, calls, rd, closers, cbs, closed, cout, nframes>>

\* wait, lines 158-172.
Wait(id, cb, keep) ==
  /\ mu = "free"
  /\ lastWait.n < MaxWaits
  /\ IF id \in DOMAIN waits
     THEN /\ lastWait' = [n |-> lastWait.n + 1, id |-> id, err |-> ErrExisting]
          /\ UNCHANGED waits
     ELSE /\ waits' = MapPut(waits, id, wait(keep, cb))
          /\ lastWait' = [n |-> lastWait.n + 1, id |-> id, err |-> "nil"]
  /\ UNCHANGED <<svars, pvars, mu, nextID, requests, calls, rd, closers, cbs, closed, cout, nframes>>

Await(id, cb) == Wait(id, cb, FALSE)
Subscribe(id, cb) == Wait(id, cb, TRUE)

\* -------------------------------------------------------------------- Close
\* Close, lines 176-178: lock, and start to range over c.requests.
CloseLock(k) ==
  /\ closers[k].pc = "idle"
  /\ mu = "free"
  /\ mu' = "close"
  /\ closers' = [closers EXCEPT ![k] =
       [pc |-> "range", todo |-> DOMAIN requests, cur |-> NoChan,
        began |-> {c \in Calls : calls[c].pc \in {"encode", "recv"}
                                   /\ calls[c].id \in DOMAIN requests}]]
  /\ UNCHANGED <<svars, pvars, nextID, requests, waits, calls, rd, cbs, closed, cout, nframes, lastWait>>

\* The range of Close with the send of lines 179-183 left out.
CloseRangeSkip(k, id) ==
  /\ closers[k].pc = "range"
  /\ closers[k].cur = NoChan
  /\ id \in closers[k].todo
  /\ closers' = [closers EXCEPT ![k].todo = @ \ {id}]
  /\ UNCHANGED <<svars, pvars, mu, nextID, requests, waits, calls, rd, cbs, closed, cout, nframes, lastWait>>

\* Close, line 178: the range yields the next channel, in no fixed order.
CloseRange(k, id) ==
  /\ closers[k].pc = "range"
  /\ closers[k].cur = NoChan
  /\ id \in closers[k].todo
  /\ closers' = [closers EXCEPT ![k].todo = @ \ {id}, ![k].cur = requests[id]]
  /\ UNCHANGED <<svars, pvars, mu, nextID, requests, waits, calls, rd, cbs, closed, cout, nframes, lastWait>>

\* Close, lines 179-183: the send meets the call's receive.
CloseSend(k) ==
  /\ closers[k].pc = "range"
  /\ closers[k].cur # NoChan
  /\ calls[closers[k].cur].pc = "recv"
  /\ calls' = Receive(closers[k].cur, ConnClosed, "close")
  /\ closers' = [closers EXCEPT ![k].cur = NoChan]
  /\ UNCHANGED <<svars, pvars, mu, nextID, requests, waits, rd, cbs, closed, cout, nframes, lastWait>>

\* Close, line 186: the range is over, unlock.
CloseUnlock(k) ==
  /\ closers[k].pc = "range"
  /\ closers[k].cur = NoChan
  /\ closers[k].todo = {}
  /\ mu' = "free"
  /\ closers' = [closers EXCEPT ![k].pc = "closing"]
  /\ UNCHANGED <<svars, pvars, nextID, requests, waits, calls, rd, cbs, closed, cout, nframes, lastWait>>

\* Close, line 188: close the stream and return.
CloseStream(k) ==
  /\ closers[k].pc = "closing"
  /\ closed' = TRUE
  /\ closers' = [closers EXCEPT ![k].pc = "done"]
  /\ UNCHANGED <<svars, pvars, mu, nextID, requests, waits, calls, rd, cbs, nframes, cout, lastWait>>

\* ------------------------------------------------- a client standing alone
\* The peer writes any frame, and the read loop decodes it.
PeerFrame ==
  \E w \in PeerWrites : nframes < MaxFrames /\ Decode(w) /\ UNCHANGED <<svars, pvars>>

Next ==
  \/ \E c \in Calls, in \in Inputs : Request(c, in.method, in.params)
  \/ \E c \in Calls : RequestEncode(c)
  \/ PeerFrame
  \/ DecodeClosed
  \/ handleResponse
  \/ handleResponseSend
  \/ \E x \in BagToSet(cbs) : CallbackReturn(x)
  \/ \E id \in WaitIDs, cb \in Callbacks : Await(id, cb)
  \/ \E id \in WaitIDs, cb \in Callbacks : Subscribe(id, cb)
  \/ \E k \in Closers : CloseLock(k)
  \/ \E k \in Closers, id \in DOMAIN requests : CloseRange(k, id)
  \/ \E k \in Closers : CloseSend(k)
  \/ \E k \in Closers : CloseUnlock(k)
  \/ \E k \in Closers : CloseStream(k)

Spec == Init /\ [][Next]_vars

\* The client under its scheduler: what the program itself does next it does
\* eventually (a goroutine that can run is run, a write to the stream ends);
\* what the caller or the peer does (Request, Close, a frame) may never happen.
Program ==
  \/ \E c \in Calls : RequestEncode(c)
  \/ DecodeClosed
  \/ handleResponse
  \/ handleResponseSend
  \/ \E k \in Closers, id \in DOMAIN requests : CloseRange(k, id)
  \/ \E k \in Closers : CloseSend(k)
  \/ \E k \in Closers : CloseUnlock(k)
  \/ \E k \in Closers : CloseStream(k)

\* What a caller may ask for: also with params that cannot be encoded.
LiveInputs == Inputs \cup {[method |-> "add", params |-> Func]}

LiveNext ==
  \/ \E c \in Calls, in \in LiveInputs : Request(c, in.method, in.params)
  \/ PeerFrame
  \/ \E k \in Closers : CloseLock(k)
  \/ Program

LiveSpec == Init /\ [][LiveNext]_vars /\ WF_vars(Program)

\* ------------------------------------------- a client given any id to wait
\* Await and Subscribe take an int: the caller may pass any, negative or not.
AnyWaitIDs == {-1, 0}

RegistryNext ==
  \/ \E c \in Calls, in \in Inputs : Request(c, in.method, in.params)
  \/ \E c \in Calls : RequestEncode(c)
  \/ PeerFrame
  \/ handleResponse
  \/ handleResponseSend
  \/ \E x \in BagToSet(cbs) : CallbackReturn(x)
  \/ \E id \in AnyWaitIDs : Await(id, "cb1")
  \/ \E id \in AnyWaitIDs : Subscribe(id, "cb1")

RegistrySpec == Init /\ [][RegistryNext]_vars

\* --------------------------------------------------------------- the server
jsonHead == <<"(", "\"", "i", "d", "\"", ":">>
jsonMid == <<",", "\"", "r", "e", "s", "u", "l", "t", "\"", ":">>
jsonTail == <<"}">>

\* err.Error(): the message of an *Error, the text of any other error.
ErrorText(e) == IF e.k = "Error" THEN e.Message ELSE e.s

ErrUnknownEndpoint == Error(0, "unknown endpoint", Nil)

\* The handler. "add" and every method it does not know are simpleHandler of
\* the tests; "raw", "empty" and "both" are endpoints that return what the
\* Handler interface lets a handler return: a json.RawMessage, an error whose
\* text is empty, a result together with an error.
HandleRPC(method, data) ==
  CASE method = "add" ->
         IF data # Nil /\ data.v.k = "arr"
         THEN [result |-> GoInt(data.v.v[1] + data.v.v[2]), err |-> Nil]
         ELSE [result |-> Nil, err |-> ErrorString("unexpected end of JSON input")]
    [] method = "raw" -> [result |-> Raw(Num(11)), err |-> Nil]
    [] method = "empty" -> [result |-> Nil, err |-> ErrorString("")]
    [] method = "both" -> [result |-> GoInt(11), err |-> ErrorString("half done")]
    [] OTHER -> [result |-> Nil, err |-> ErrUnknownEndpoint]

\* json.Decoder.Decode into a request, of one object on the wire.
DecodeRequest(w) ==
  IF w.k # "req" THEN [ok |-> FALSE, req |-> request("", Nil, 0)]
  ELSE [ok |-> w.id.k \in {"num", "absent"} /\ w.method.k \in {"str", "absent"},
        req |-> request(IF w.method.k = "str" THEN w.method.s ELSE "",
                        IF w.params = Absent THEN Nil ELSE Raw(w.params),
                        DecodeInt(w.id))]

\* json.Encoder.Encode of a Response: result is omitted when nil, error when
\* it is the empty string.
EncodeResponse(resp) ==
  Obj(Num(resp.ID),
      IF resp.Result = Nil THEN Absent ELSE Marshal(resp.Result),
      IF resp.Error = "" THEN Absent ELSE Str(resp.Error))

\* The bytes on the wire. strconv.AppendInt(b, n, 10):
DigitChars == <<"0", "1", "2", "3", "4", "5", "6", "7", "8", "9">>
RECURSIVE AppendNat(_)
AppendNat(n) ==
  IF n < 10 THEN <<DigitChars[n + 1]>>
  ELSE AppendNat(n \div 10) \o <<DigitChars[(n % 10) + 1]>>
AppendInt(n) == IF n < 0 THEN <<"-">> \o AppendNat(-n) ELSE AppendNat(n)

\* The JSON text of a value (the characters of a string stand as one).
RECURSIVE JoinInts(_)
JoinInts(v) ==
  IF v = <<>> THEN <<>>
  ELSE AppendInt(Head(v)) \o (IF Len(v) > 1 THEN <<",">> ELSE <<>>) \o JoinInts(Tail(v))
Text(v) ==
  CASE v.k = "num" -> AppendInt(v.n)
    [] v.k = "str" -> <<"\"", v.s, "\"">>
    [] v.k = "arr" -> <<"[">> \o JoinInts(v.v) \o <<"]">>

\* The bytes of one write to the stream: the literal bytes, the digits and
\* the raw data of sendJSON and SendData as they are; a Response as
\* json.Encoder.Encode writes it, the object followed by a newline.
WriteBytes(w) ==
  CASE w.k = "lit" -> w.b
    [] w.k = "digits" -> AppendInt(w.n)
    [] w.k = "bytes" -> Text(w.v)
    [] w.k = "obj" ->
         <<"{", "\"", "i", "d", "\"", ":">> \o AppendInt(w.id.n)
           \o (IF w.result = Absent THEN <<>>
               ELSE <<",", "\"", "r", "e", "s", "u", "l", "t", "\"", ":">> \o Text(w.result))
           \o (IF w.error = Absent THEN <<>>
               ELSE <<",", "\"", "e", "r", "r", "o", "r", "\"", ":">> \o Text(w.error))
           \o <<"}", "\n">>
RECURSIVE StreamBytes(_)
StreamBytes(stream) ==
  IF stream = <<>> THEN <<>> ELSE WriteBytes(Head(stream)) \o StreamBytes(Tail(stream))

Handler(pc, req, resp) == [pc |-> pc, req |-> req, resp |-> resp]
HandlerIDs == 1 .. Len(handlers)

\* Server.Handle with the go of line 168 left out: handleRequest is called on
\* the loop, which decodes again when the response has been sent.
ServerDecodeInline(w) ==
  /\ srv = "decode"
  /\ \A h \in HandlerIDs : handlers[h].pc = "done"
  /\ LET d == DecodeRequest(w) IN
       IF d.ok
       THEN /\ handlers' = Append(handlers, Handler("run", d.req, Response(0, Nil, "")))
            /\ UNCHANGED srv
       ELSE /\ srv' = "returned"
            /\ UNCHANGED handlers
  /\ UNCHANGED <<encoderLock, cin>>

\* Server.Handle, lines 163-169: decode the next frame w; on an error return,
\* else start a goroutine for the request.
ServerDecode(w) ==
  /\ srv = "decode"
  /\ LET d == DecodeRequest(w) IN
       IF d.ok
       THEN /\ handlers' = Append(handlers, Handler("run", d.req, Response(0, Nil, "")))
            /\ UNCHANGED srv
       ELSE /\ srv' = "returned"
            /\ UNCHANGED handlers
  /\ UNCHANGED <<encoderLock, cin>>

\* handleRequest, lines 173-178: call the handler and fill in the Response.
handleRequest(h) ==
  /\ handlers[h].pc = "run"
  /\ LET req == handlers[h].req
         out == HandleRPC(req.Method, req.Params)
     IN handlers' = [handlers EXCEPT ![h] =
          Handler("send", req,
                  Response(req.ID, out.result,
                           IF out.err # Nil THEN ErrorText(out.err) ELSE ""))]
  /\ UNCHANGED <<cvars, pvars, srv, encoderLock, cin>>

FastPath(resp) == resp.Result.k = "raw" /\ resp.Error = ""

\* Send, lines 187-190: lock, encode the Response in one write, unlock.
Send(h) ==
  /\ handlers[h].pc = "send"
  /\ ~FastPath(handlers[h].resp)
  /\ encoderLock = NoHandler
  /\ cin' = Append(cin, EncodeResponse(handlers[h].resp))
  /\ handlers' = [handlers EXCEPT ![h].pc = "done"]
  /\ UNCHANGED <<cvars, pvars, srv, encoderLock>>

\* sendJSON without the lock of line 201.
sendJSONNoLock(h) ==
  /\ handlers[h].pc = "send"
  /\ FastPath(handlers[h].resp)
  /\ cin' = Append(cin, Lit(jsonHead))
  /\ handlers' = [handlers EXCEPT ![h].pc = "id"]
  /\ UNCHANGED <<cvars, pvars, srv, encoderLock>>

\* Send, lines 184-185, and sendJSON, lines 201-202: lock, write jsonHead.
sendJSON(h) ==
  /\ handlers[h].pc = "send"
  /\ FastPath(handlers[h].resp)
  /\ encoderLock = NoHandler
  /\ encoderLock' = h
  /\ cin' = Append(cin, Lit(jsonHead))
  /\ handlers' = [handlers EXCEPT ![h].pc = "id"]
  /\ UNCHANGED <<cvars, pvars, srv>>

\* sendJSON, lines 203-211: the id, jsonMid, the data, jsonTail, each in a
\* write of its own; then unlock.
sendJSONWrite(h) ==
  /\ handlers[h].pc \in {"id", "mid", "data", "tail"}
  /\ LET at == handlers[h].pc
         resp == handlers[h].resp
     IN /\ cin' = Append(cin, CASE at = "id" -> Digits(resp.ID)
                                [] at = "mid" -> Lit(jsonMid)
                                [] at = "data" -> Bytes(resp.Result.v)
                                [] at = "tail" -> Lit(jsonTail))
        /\ handlers' = [handlers EXCEPT ![h].pc =
                          CASE at = "id" -> "mid"
                            [] at = "mid" -> "data"
                            [] at = "data" -> "tail"
                            [] at = "tail" -> "done"]
        /\ encoderLock' = IF at = "tail" THEN NoHandler ELSE encoderLock
  /\ UNCHANGED <<cvars, pvars, srv>>

\* SendData, lines 217-219: lock, write the data in one write, unlock.
SendData(h) ==
  /\ handlers[h].pc = "senddata"
  /\ encoderLock = NoHandler
  /\ cin' = Append(cin, Bytes(handlers[h].req.v))
  /\ handlers' = [handlers EXCEPT ![h].pc = "done"]
  /\ UNCHANGED <<cvars, pvars, srv, encoderLock>>

\* The application calls Send(resp) in a goroutine of its own: one that
\* serves no request.
GoSend(resp) ==
  /\ handlers' = Append(handlers, Handler("send", Nil, resp))
  /\ UNCHANGED <<cvars, pvars, srv, encoderLock, cin>>

\* The application calls SendData(data) in a goroutine of its own: what it
\* holds is no request but the data.
GoSendData(data) ==
  /\ handlers' = Append(handlers, Handler("senddata", Raw(data), Response(0, Nil, "")))
  /\ UNCHANGED <<cvars, pvars, srv, encoderLock, cin>>

\* -------------------------------------------------- a server standing alone
\* What the application may push with Send and with SendData.
SendResponses ==
  {Response(-1, Raw(Num(7)), ""), Response(-1, GoInt(7), ""), Response(1, Nil, "gone")}
SendDatas == {Str("ping")}

ServerMethods == {"add", "unknown", "raw", "empty", "both"}
ParamsOf(method) == IF method = "add" THEN Arr(<<5, 6>>) ELSE Absent
PeerRequests ==
  {Req(Num(i), Str(m), ParamsOf(m)) : i \in {0, 1}, m \in ServerMethods}
    \cup {Lit(<<"x">>)}

\* The peer writes any frame, and Server.Handle decodes it.
PeerRequest ==
  \E w \in PeerRequests :
    Len(handlers) < MaxRequests /\ ServerDecode(w) /\ UNCHANGED <<cvars, pvars>>

ServerNext ==
  \/ PeerRequest
  \/ \E resp \in SendResponses : Len(handlers) < MaxRequests /\ GoSend(resp)
  \/ \E data \in SendDatas : Len(handlers) < MaxRequests /\ GoSendData(data)
  \/ \E h \in HandlerIDs : handleRequest(h)
  \/ \E h \in HandlerIDs : Send(h)
  \/ \E h \in HandlerIDs : sendJSON(h)
  \/ \E h \in HandlerIDs : sendJSONWrite(h)
  \/ \E h \in HandlerIDs : SendData(h)

ServerSpec == Init /\ [][ServerNext]_vars

\* ------------------------------------------ a client connected to a server
\* The next frame of a stream of writes: a whole object, or what begins with
\* literal bytes. Bytes that open an object with "{" are the head of the
\* envelope of sendJSON, which is whole after five writes; any other bytes
\* make Decode fail at once.
Envelope(stream) ==
  /\ stream[1] = Lit(<<"{">> \o Tail(jsonHead)) /\ stream[2].k = "digits"
  /\ stream[3] = Lit(jsonMid) /\ stream[4].k = "bytes" /\ stream[5] = Lit(jsonTail)
NextFrame(stream) ==
  LET w == Head(stream) IN
    IF w.k = "lit" /\ w.b # <<>> /\ w.b[1] = "{"
    THEN [ready |-> Len(stream) >= 5, used |-> 5,
          w |-> IF Len(stream) >= 5 /\ Envelope(stream)
                THEN Obj(Num(stream[2].n), stream[4].v, Absent)
                ELSE Lit(<<>>)]
    ELSE [ready |-> TRUE, used |-> 1, w |-> w]

\* Client.respond decodes the next frame the server has written.
ClientRead ==
  /\ cin # <<>>
  /\ LET f == NextFrame(cin) IN
       /\ f.ready
       /\ Decode(f.w)
       /\ cin' = SubSeq(cin, f.used + 1, Len(cin))
  /\ UNCHANGED <<srv, handlers, encoderLock, pvars>>

\* Server.Handle decodes the next frame the client has written.
ServerRead ==
  /\ cout # <<>>
  /\ ServerDecode(Head(cout))
  /\ cout' = Tail(cout)
  /\ UNCHANGED <<mu, nextID, requests, waits, calls, rd, closers, cbs, closed,
                 nframes, lastWait, pvars>>

ConnectedInputs ==
  {[method |-> "add", params |-> GoInts(<<5, 6>>)],
   [method |-> "unknown", params |-> Nil],
   [method |-> "raw", params |-> Nil]}

ConnectedProgram ==
  \/ \E c \in Calls : RequestEncode(c)
  \/ ServerRead
  \/ \E h \in HandlerIDs : handleRequest(h)
  \/ \E h \in HandlerIDs : Send(h)
  \/ \E h \in HandlerIDs : sendJSON(h)
  \/ \E h \in HandlerIDs : sendJSONWrite(h)
  \/ ClientRead
  \/ handleResponse
  \/ handleResponseSend

ConnectedNext ==
  \/ \E c \in Calls, in \in ConnectedInputs : Request(c, in.method, in.params)
  \/ ConnectedProgram

\* What the program itself does next it does eventually; a Request call may
\* never be made.
ConnectedSpec == Init /\ [][ConnectedNext]_vars /\ WF_vars(ConnectedProgram)

\* ---------------------------------------------------------- a ClientServer
\* json.Decoder.Decode into a requestOrResponse, of one object on the wire: a
\* field the object lacks keeps its zero value. ID is decoded as it stands;
\* method must be a string and error an object.
Field(w, f) == IF f \in DOMAIN w THEN w[f] ELSE Absent
requestOrResponse(method, params, id, result, error) ==
  [Method |-> method, Params |-> params, ID |-> id, Result |-> result, Error |-> error]
DecodeRequestOrResponse(w) ==
  IF w.k \notin {"obj", "req", "mixed"}
  THEN [ok |-> FALSE, req |-> requestOrResponse("", Nil, Absent, Nil, Nil)]
  ELSE [ok |-> /\ Field(w, "method").k \in {"str", "absent"}
               /\ Field(w, "error").k \in {"errobj", "absent"},
        req |-> requestOrResponse(
                  IF Field(w, "method").k = "str" THEN w.method.s ELSE "",
                  IF Field(w, "params") = Absent THEN Nil ELSE Raw(w.params),
                  Field(w, "id"),
                  IF Field(w, "result") = Absent THEN Nil ELSE Raw(w.result),
                  DecodeError(Field(w, "error")))]

\* A handleResponse goroutine: where it stands, its response, the channel it
\* sends on.
Responder(pc, resp, ch) == [pc |-> pc, resp |-> resp, ch |-> ch]
ResponderIDs == 1 .. Len(resps)

\* ClientServer.Handle with the test of line 60 made on the result: a frame
\* with a result or an error is taken for a response, any other for a request.
ClientServerHandleByResult(w) ==
  /\ srv = "decode"
  /\ LET d == DecodeRequestOrResponse(w) IN
       IF ~d.ok
       THEN /\ srv' = "returned"
            /\ UNCHANGED <<handlers, resps>>
       ELSE IF d.req.Result = Nil /\ d.req.Error = Nil
       THEN /\ handlers' = Append(handlers,
                   Handler("run", request(d.req.Method, d.req.Params, DecodeInt(d.req.ID)),
                           Response(0, Nil, "")))
            /\ UNCHANGED <<srv, resps>>
       ELSE /\ resps' = Append(resps,
                   Responder("lock", clientResponse(DecodeInt(d.req.ID), d.req.Result,
                                                    d.req.Error), NoChan))
            /\ UNCHANGED <<srv, handlers>>
  /\ UNCHANGED <<cvars, encoderLock, cin>>

\* ClientServer.Handle, lines 53-73: decode the next frame w; on an error
\* return; else start a goroutine, handleRequest for a frame with a method,
\* handleResponse for any other (its id unmarshalled into an int, 0 when that
\* fails).
ClientServerHandle(w) ==
  /\ srv = "decode"
  /\ LET d == DecodeRequestOrResponse(w) IN
       IF ~d.ok
       THEN /\ srv' = "returned"
            /\ UNCHANGED <<handlers, resps>>
       ELSE IF d.req.Method # ""
       THEN /\ handlers' = Append(handlers,
                   Handler("run", request(d.req.Method, d.req.Params, DecodeInt(d.req.ID)),
                           Response(0, Nil, "")))
            /\ UNCHANGED <<srv, resps>>
       ELSE /\ resps' = Append(resps,
                   Responder("lock", clientResponse(DecodeInt(d.req.ID), d.req.Result,
                                                    d.req.Error), NoChan))
            /\ UNCHANGED <<srv, handlers>>
  /\ UNCHANGED <<cvars, encoderLock, cin>>

\* handleResponse, lines 79-96, in goroutine r, up to the send of line 84 or
\* else to the unlock.
handleResponseGo(r) ==
  /\ resps[r].pc = "lock"
  /\ mu = "free"
  /\ LET resp == resps[r].resp IN
       IF resp.ID >= 0
       THEN IF resp.ID \in DOMAIN requests
            THEN /\ requests' = MapDelete(requests, resp.ID)
                 /\ resps' = [resps EXCEPT ![r] = Responder("send", resp, requests[resp.ID])]
                 /\ mu' = "respond"
                 /\ UNCHANGED <<waits, cbs>>
            ELSE /\ resps' = [resps EXCEPT ![r].pc = "done"]
                 /\ UNCHANGED <<requests, waits, cbs, mu>>
       ELSE IF resp.ID \in DOMAIN waits
            THEN /\ waits' = IF waits[resp.ID].keep THEN waits
                             ELSE MapDelete(waits, resp.ID)
                 /\ cbs' = cbs (+) SetToBag({[cb |-> waits[resp.ID].response,
                                              data |-> resp.Result]})
                 /\ resps' = [resps EXCEPT ![r].pc = "done"]
                 /\ UNCHANGED <<requests, mu>>
            ELSE /\ resps' = [resps EXCEPT ![r].pc = "done"]
                 /\ UNCHANGED <<requests, waits, cbs, mu>>
  /\ UNCHANGED <<svars, nextID, calls, rd, closers, closed, cout, nframes, lastWait>>

\* handleResponse, lines 84 and 96, in goroutine r: the send meets the call's
\* receive, then the mutex is released.
handleResponseGoSend(r) ==
  /\ resps[r].pc = "send"
  /\ calls[resps[r].ch].pc = "recv"
  /\ calls' = Receive(resps[r].ch, resps[r].resp, "frame")
  /\ resps' = [resps EXCEPT ![r].pc = "done"]
  /\ mu' = "free"
  /\ UNCHANGED <<svars, nextID, requests, waits, rd, closers, cbs, closed, cout, nframes, lastWait>>

\* Request, lines 116-120, on a ClientServer: its encoder writes to the conn
\* that is also the serverHandler's writer; no lock is taken.
ClientServerEncode(c) ==
  /\ calls[c].pc = "encode"
  /\ calls' = [calls EXCEPT ![c].pc = "recv"]
  /\ cin' = IF closed \/ ~Encodable(calls[c].params) THEN cin
             ELSE Append(cin, EncodeClientRequest(
                      clientRequest(calls[c].id, calls[c].method, calls[c].params)))
  /\ UNCHANGED <<pvars, srv, handlers, encoderLock, mu, nextID, requests, waits, rd, closers,
                 cbs, closed, cout, nframes, lastWait>>

\* What the peer of a ClientServer may write: requests, responses and pushes,
\* a frame whose method is empty, one with a method and a result, one with no
\* id and one whose id is a string, and bytes that are no JSON.
PeerInputs ==
  {Req(Num(0), Str("add"), Arr(<<5, 6>>)), Req(Num(0), Str("raw"), Absent),
   Obj(Num(0), Num(5), Absent), Obj(Num(-1), Num(6), Absent),
   Req(Num(0), Str(""), Absent), Mixed(Num(0), Str("add"), Arr(<<5, 6>>), Num(5)),
   Obj(Absent, Num(9), Absent), Obj(Str("a"), Num(8), Absent), Lit(<<"x">>)}

ClientServerNext ==
  \/ \E c \in Calls, in \in Inputs : Request(c, in.method, in.params)
  \/ \E c \in Calls : ClientServerEncode(c)
  \/ \E w \in PeerInputs :
       Len(handlers) + Len(resps) < MaxPeerFrames /\ ClientServerHandle(w)
  \/ \E r \in ResponderIDs : handleResponseGo(r)
  \/ \E r \in ResponderIDs : handleResponseGoSend(r)
  \/ \E h \in HandlerIDs : handleRequest(h)
  \/ \E h \in HandlerIDs : Send(h)
  \/ \E h \in HandlerIDs : sendJSON(h)
  \/ \E h \in HandlerIDs : sendJSONWrite(h)
  \/ \E id \in WaitIDs : Subscribe(id, "cb1")

ClientServerSpec == Init /\ [][ClientServerNext]_vars

\* -------------------------------------------- a server reading its stream
\* The peer writes a frame to the stream the server decodes from.
Arrive(w) ==
  /\ cout' = Append(cout, w)
  /\ UNCHANGED <<svars, pvars, mu, nextID, requests, waits, calls, rd, closers, cbs, closed,
                 nframes, lastWait>>

StreamRequests ==
  {Req(Num(0), Str("add"), Arr(<<5, 6>>)), Req(Num(1), Str("raw"), Absent),
   Req(Num(1), Str("unknown"), Absent), Lit(<<"x">>)}

\* Goroutine h calls the handler; goroutine h sends its Response.
HandlerRuns(h) == h \in HandlerIDs /\ handleRequest(h)
HandlerSends(h) == h \in HandlerIDs /\ (Send(h) \/ sendJSON(h) \/ sendJSONWrite(h))

StreamNext ==
  \/ \E w \in StreamRequests : Len(cout) + Len(handlers) < MaxRequests /\ Arrive(w)
  \/ ServerRead
  \/ \E h \in 1 .. MaxRequests : HandlerRuns(h)
  \/ \E h \in 1 .. MaxRequests : HandlerSends(h)

\* The server under its scheduler: the loop decodes a frame that has arrived,
\* a goroutine that can run is run and a write to the stream ends. A handler
\* returns when it pleases: the handler of the first request may never return
\* (the others do).
StreamSpec ==
  /\ Init /\ [][StreamNext]_vars
  /\ WF_vars(ServerRead)
  /\ \A h \in 1 .. MaxRequests : WF_vars(HandlerSends(h))
  /\ \A h \in 2 .. MaxRequests : WF_vars(HandlerRuns(h))

TypeOK ==
  /\ mu \in {"free", "respond", "close"}
  /\ nextID \in Nat
  /\ DOMAIN requests \subseteq Nat
  /\ \A c \in Calls : calls[c].pc \in {"idle", "encode", "recv", "done"}
  /\ rd.pc \in {"decode", "handle", "send", "stopped"}

\* ------------------------------------------------------------------ claims
Started(c) == calls[c].pc # "idle"
Pending(c) == calls[c].pc = "recv" /\ calls[c].id \in DOMAIN requests
\* The read loop takes the step of handleResponse that routes its frame.
Routes == rd.pc = "handle" /\ rd'.pc # "handle"
Unmatched(resp) ==
  \/ resp.ID >= 0 /\ resp.ID \notin DOMAIN requests
  \/ resp.ID < 0 /\ resp.ID \notin DOMAIN waits
Invocation(w, resp) == SetToBag({[cb |-> w.response, data |-> resp.Result]})

\* C1: a Request call that has returned holds either the response frame whose
\* id is the ID allocated to the call, or the response Close made; and the
\* channel the read loop sends a frame on is that of the call with the
\* frame's id.
C1_OwnResponse ==
  /\ \A c \in Calls :
       calls[c].pc = "done" =>
         /\ calls[c].via = "frame" => calls[c].resp.ID = calls[c].id
         /\ calls[c].via # "frame" => calls[c].via = "close" /\ calls[c].resp = ConnClosed
         /\ calls[c].ret = IF calls[c].resp.Error # Nil
                           THEN [result |-> Nil, err |-> calls[c].resp.Error]
                           ELSE [result |-> calls[c].resp.Result, err |-> Nil]
  /\ rd.pc = "send" => Started(rd.ch) /\ calls[rd.ch].id = rd.resp.ID

\* Two calls are out, and the response to the later one has arrived first.
C1_Witness ==
  \E c, d \in Calls :
    /\ calls[c].pc = "recv" /\ calls[d].pc = "done" /\ calls[d].via = "frame"
    /\ calls[c].id < calls[d].id
    /\ calls[d].ret.result = Raw(Num(6))

\* C2: routing a decoded frame: to the pending call of its id (>= 0), whose
\* entry is removed; to the wait of its id (< 0), removed only if not keep;
\* or, with no entry for its id, dropped with both maps unchanged. The frame
\* handed over reaches the call of that entry and no other.
C2_OneConsumer ==
  [][/\ Routes =>
          LET resp == rd.resp IN
            /\ calls' = calls
            /\ resp.ID >= 0 /\ resp.ID \in DOMAIN requests =>
                 /\ requests' = MapDelete(requests, resp.ID)
                 /\ rd' = ReadLoop("send", resp, requests[resp.ID])
                 /\ waits' = waits /\ cbs' = cbs
            /\ resp.ID < 0 /\ resp.ID \in DOMAIN waits =>
                 /\ cbs' = cbs (+) Invocation(waits[resp.ID], resp)
                 /\ requests' = requests
                 /\ waits' = IF waits[resp.ID].keep THEN waits
                             ELSE MapDelete(waits, resp.ID)
            /\ Unmatched(resp) =>
                 requests' = requests /\ waits' = waits /\ cbs' = cbs /\ rd' = Decoding
     /\ rd.pc = "send" /\ rd'.pc # "send" =>
          /\ \A c \in Calls \ {rd.ch} : calls'[c] = calls[c]
          /\ calls'[rd.ch].resp = rd.resp /\ calls'[rd.ch].pc = "done"
          /\ requests' = requests /\ waits' = waits /\ cbs' = cbs]_vars

\* A frame is about to be dropped, after one went to a call and one to a wait.
C2_Witness ==
  /\ rd.pc = "handle" /\ Unmatched(rd.resp)
  /\ \E c \in Calls : calls[c].pc = "done" /\ calls[c].via = "frame"
  /\ cbs # EmptyBag

\* C5: a one-shot registration (Await) is used by the first frame of its id:
\* that step invokes its callback once, with the frame's result, and removes
\* it; a frame whose id has no registration invokes nothing; callbacks are
\* invoked by no other step, and a one-shot registration goes no other way.
C5_AwaitOnce ==
  [][/\ Routes /\ rd.resp.ID < 0 =>
          LET id == rd.resp.ID IN
            /\ id \in DOMAIN waits /\ ~waits[id].keep =>
                 /\ cbs' = cbs (+) Invocation(waits[id], rd.resp)
                 /\ id \notin DOMAIN waits'
            /\ id \notin DOMAIN waits => cbs' = cbs /\ waits' = waits
     /\ ~(Routes /\ rd.resp.ID \in DOMAIN waits) => cbs' \sqsubseteq cbs
     /\ \A id \in DOMAIN waits \ DOMAIN waits' :
          Routes /\ rd.resp.ID = id /\ ~waits[id].keep]_vars

\* Await(-1, cb) was the only registration, its callback has been invoked once
\* with 5, and a second frame of id -1 is about to be dropped.
C5_Witness ==
  /\ lastWait = [n |-> 1, id |-> -1, err |-> "nil"]
  /\ waits = EmptyMap
  /\ \E cb \in Callbacks : cbs = SetToBag({[cb |-> cb, data |-> Raw(Num(5))]})
  /\ rd.pc = "handle" /\ rd.resp.ID = -1

\* C6: a kept registration (Subscribe) is used by every frame of its id: each
\* such step invokes its callback once with that frame's result; and no step
\* removes or changes a kept registration.
C6_SubscribeEvery ==
  [][/\ Routes /\ rd.resp.ID \in DOMAIN waits /\ waits[rd.resp.ID].keep =>
          cbs' = cbs (+) Invocation(waits[rd.resp.ID], rd.resp)
     /\ \A id \in DOMAIN waits :
          waits[id].keep => id \in DOMAIN waits' /\ waits'[id] = waits[id]]_vars

\* Subscribe(-1, cb): three frames of id -1 have given three invocations, and
\* the registration is still there.
C6_Witness ==
  /\ lastWait = [n |-> 1, id |-> -1, err |-> "nil"]
  /\ -1 \in DOMAIN waits /\ waits[-1].keep
  /\ nframes = 3
  /\ BagCardinality(cbs) = 3
  /\ CopiesIn([cb |-> waits[-1].response, data |-> Raw(Num(5))], cbs) = 2
  /\ rd.pc = "decode"

\* C7: Await or Subscribe with an id that is registered returns ErrExisting
\* and changes neither map; with an id that is not, it returns nil and
\* registers it.
C7_Existing ==
  [][lastWait'.n # lastWait.n =>
       LET id == lastWait'.id IN
         /\ id \in DOMAIN waits =>
              lastWait'.err = ErrExisting /\ waits' = waits /\ requests' = requests
         /\ id \notin DOMAIN waits =>
              /\ lastWait'.err = "nil"
              /\ DOMAIN waits' = DOMAIN waits \cup {id}
              /\ \A x \in DOMAIN waits : waits'[x] = waits[x]]_vars

\* The second registration of id -1 has been refused; the first is a one-shot.
C7_Witness ==
  /\ lastWait = [n |-> 2, id |-> -1, err |-> ErrExisting]
  /\ -1 \in DOMAIN waits /\ ~waits[-1].keep

\* C8: the IDs allocated are 0, 1, 2, ... in the order of allocation, none
\* twice; and the entry of an ID in the pending-call map is the channel of the
\* call that was given that ID.
C8_AscendingIDs ==
  /\ [](/\ \A c, d \in Calls : Started(c) /\ Started(d) /\ c # d => calls[c].id # calls[d].id
        /\ {calls[c].id : c \in {x \in Calls : Started(x)}} = 0 .. (nextID - 1)
        /\ \A id \in DOMAIN requests : id >= 0 /\ Started(requests[id])
                                        /\ calls[requests[id]].id = id)
  /\ [][\A c \in Calls :
          ~Started(c) /\ Started(c)' =>
            /\ calls'[c].id = nextID /\ nextID' = nextID + 1
            /\ \A d \in Calls : Started(d) => calls[d].id < calls'[c].id]_vars

\* Every call has its ID, and both are pending.
C8_Witness ==
  /\ nextID = MaxCalls
  /\ \A c \in Calls : Pending(c)

\* C3: a call that is blocked on its channel when a Close call ranges over the
\* pending calls comes to return the closed-connection error.
C3_CloseReleases ==
  \A c \in Calls, k \in Closers :
    (closers[k].pc = "range" /\ Pending(c))
      ~> (calls[c].pc = "done" /\ calls[c].ret.err = ConnClosed.Error)

\* C3 for the first Close call: while no other Close call has been made, the
\* calls it finds blocked do come to return the closed-connection error.
C3_FirstCloseReleases ==
  \A c \in Calls, k \in Closers :
    (closers[k].pc = "range" /\ Pending(c) /\ \A j \in Closers \ {k} : closers[j].pc = "idle")
      ~> (calls[c].pc = "done" /\ calls[c].ret.err = ConnClosed.Error)

\* C4, as claimed: once the read loop has stopped with no Close call made, a
\* call that is pending comes to be handed the closed-connection error.
C4_BreakReleases ==
  \A c \in Calls :
    (rd.pc = "stopped" /\ (\A k \in Closers : closers[k].pc = "idle") /\ Pending(c))
      ~> (calls[c].pc = "done" /\ calls[c].ret.err = ConnClosed.Error)

\* C4, amended: the read loop stopping hands nothing to any call and leaves
\* the pending-call map as it is; once it has stopped, a call returns only by
\* a Close call handing it the closed-connection error.
C4_OnlyCloseReleases ==
  [][/\ rd.pc # "stopped" /\ rd'.pc = "stopped" => calls' = calls /\ requests' = requests
     /\ \A c \in Calls :
          rd.pc = "stopped" /\ calls[c].pc = "recv" /\ calls'[c].pc = "done" =>
            /\ \E k \in Closers : closers[k].pc = "range" /\ closers[k].cur = c
            /\ calls'[c].ret = [result |-> Nil, err |-> ConnClosed.Error]]_vars

\* The read loop has stopped on a frame it could not decode, no Close call has
\* been made, and a call is still pending.
C4_Witness ==
  /\ rd.pc = "stopped" /\ ~closed
  /\ \A k \in Closers : closers[k].pc = "idle"
  /\ \E c \in Calls : Pending(c)

\* Goroutine h serves a request (and is not a Send or SendData call of the
\* application).
Serves(h) == "Method" \in DOMAIN handlers[h].req
\* What handler goroutine h got from the handler.
Outcome(h) == HandleRPC(handlers[h].req.Method, handlers[h].req.Params)
ErrorResponse(w, id) == w.k = "obj" /\ w.id = Num(id) /\ w.error # Absent

\* C9: no step of a handler goroutine ends Server.Handle, and once a handler
\* that returned an error has sent its Response, an error response with the
\* request's ID is on the stream.
C9_HandlerError ==
  /\ [][handlers' # handlers /\ Len(handlers') = Len(handlers) => srv' = srv]_vars
  /\ [](\A h \in HandlerIDs :
          handlers[h].pc = "done" /\ Serves(h) /\ Outcome(h).err # Nil =>
            \E i \in 1 .. Len(cin) : ErrorResponse(cin[i], handlers[h].req.ID))

\* C9 for the errors whose text is not empty.
C9_NamedHandlerError ==
  /\ [][handlers' # handlers /\ Len(handlers') = Len(handlers) => srv' = srv]_vars
  /\ [](\A h \in HandlerIDs :
          (/\ handlers[h].pc = "done" /\ Serves(h)
           /\ Outcome(h).err # Nil /\ ErrorText(Outcome(h).err) # "") =>
            \E i \in 1 .. Len(cin) : ErrorResponse(cin[i], handlers[h].req.ID))

\* What Request is to return for call c: the handler's result encoded and no
\* error, or no result and the handler's error.
Expected(c) ==
  LET out == HandleRPC(calls[c].method,
                       IF calls[c].params = Nil THEN Nil
                       ELSE Raw(Marshal(calls[c].params)))
  IN IF out.err = Nil THEN [result |-> Raw(Marshal(out.result)), err |-> Nil]
     ELSE [result |-> Nil, err |-> out.err]

\* C10: a Request call made on a client connected to a server returns, and
\* returns what the handler returned for its method and params.
C10_ReturnsHandlers ==
  \A c \in Calls : Started(c) ~> (calls[c].pc = "done" /\ calls[c].ret = Expected(c))

\* C10 for the calls that do return: Request("add", [5,6]) returns 11.
C10_AddReturns11 ==
  \A c \in Calls :
    calls[c].pc = "done" /\ calls[c].method = "add" =>
      calls[c].ret = [result |-> Raw(Num(11)), err |-> Nil]

\* No call for a method the handler fails on, or answers with a
\* json.RawMessage, ever returns.
C10_OthersNeverReturn ==
  \A c \in Calls : calls[c].pc = "done" => calls[c].method = "add"

\* C12: when a Close call comes to close the stream (line 188), and from then
\* on, every Request call that was pending when that Close call took the mutex
\* has returned the closed-connection error, handed to it by Close.
C12_ReleasedBeforeClose ==
  \A k \in Closers :
    closers[k].pc \in {"closing", "done"} =>
      \A c \in closers[k].began :
        /\ calls[c].pc = "done" /\ calls[c].via = "close"
        /\ calls[c].ret = [result |-> Nil, err |-> ConnClosed.Error]

\* A Close call that found both calls pending is about to close the stream.
C12_Witness ==
  \E k \in Closers :
    closers[k].pc = "closing" /\ closers[k].began = Calls /\ ~closed

\* C17: a hand-off that handleResponse has begun (line 84, the mutex held)
\* ends: the mutex is released and the read loop decodes again.
C17_HandOffEnds ==
  (rd.pc = "send") ~> (rd.pc = "decode" /\ mu # "respond")

\* C18: no hand-off is attempted on the channel of a call that has already
\* been handed a response: neither the read loop nor a Close call is sending
\* on the channel of a call that has returned.
C18_OneHandOff ==
  \A c \in Calls :
    calls[c].pc = "done" =>
      /\ ~(rd.pc = "send" /\ rd.ch = c)
      /\ \A k \in Closers : closers[k].cur # c

\* C19: while no Close call is under way, and one has returned, the
\* pending-call map has no entry for a call that Close released.
C19_NoEntryAfterClose ==
  (/\ \E k \in Closers : closers[k].pc = "done"
   /\ \A k \in Closers : closers[k].pc \in {"idle", "done"}) =>
    \A k \in Closers : \A c \in closers[k].began : calls[c].id \notin DOMAIN requests

\* C20: the step that starts a callback has removed a one-shot registration,
\* leaves the read loop decoding and the mutex free; and the mutex is only
\* ever held by a hand-off to a call or by Close, never for a callback, be it
\* running or blocked.
C20_OffTheLoop ==
  /\ [][BagCardinality(cbs') > BagCardinality(cbs) =>
          /\ rd.pc = "handle" /\ rd.resp.ID \in DOMAIN waits
          /\ ~waits[rd.resp.ID].keep => rd.resp.ID \notin DOMAIN waits'
          /\ rd' = Decoding /\ mu' = "free"]_vars
  /\ [](/\ rd.pc \in {"decode", "handle", "send", "stopped"}
        /\ mu # "free" => \/ rd.pc = "send"
                          \/ \E k \in Closers : closers[k].pc = "range")

\* The callback of a one-shot registration is still running; its id has been
\* registered again meanwhile, the loop has routed a frame to a call and is
\* decoding.
C20_Witness ==
  /\ BagCardinality(cbs) = 1
  /\ lastWait = [n |-> 2, id |-> -1, err |-> "nil"]
  /\ -1 \in DOMAIN waits /\ ~waits[-1].keep
  /\ \E c \in Calls : calls[c].pc = "done" /\ calls[c].via = "frame"
  /\ rd.pc = "decode"

\* The chunks of a stream are whole frames one after another, the last one
\* perhaps unfinished: an envelope of sendJSON is its five writes in a row.
RECURSIVE WellFramed(_)
WellFramed(stream) ==
  IF stream = <<>> THEN TRUE
  ELSE IF Head(stream) = Lit(jsonHead)
       THEN /\ Len(stream) >= 2 => stream[2].k = "digits"
            /\ Len(stream) >= 3 => stream[3] = Lit(jsonMid)
            /\ Len(stream) >= 4 => stream[4].k = "bytes"
            /\ Len(stream) >= 5 => stream[5] = Lit(jsonTail)
            /\ Len(stream) >= 6 => WellFramed(SubSeq(stream, 6, Len(stream)))
       ELSE /\ Head(stream).k \in {"obj", "req", "bytes"}
            /\ WellFramed(Tail(stream))

\* C14: what the Server has written is whole frames one after another (the
\* five writes of an envelope in a row, nothing between them), and every
\* write is made by the goroutine that holds encoderLock or, in the single
\* write of Send and of SendData, while nobody holds it.
C14_Exclusive ==
  /\ [](WellFramed(cin))
  /\ [][cin' # cin =>
          \A h \in HandlerIDs :
            handlers'[h] # handlers[h] => encoderLock \in {NoHandler, h}]_vars

\* A goroutine is in the middle of an envelope, after a whole frame, while
\* another one has a frame to send.
C14_Witness ==
  \E h, g \in HandlerIDs :
    /\ handlers[h].pc = "data" /\ handlers[g].pc \in {"send", "senddata"}
    /\ Len(cin) > 3

\* Where the envelopes of sendJSON that are whole begin in the stream.
Envelopes == {i \in 1 .. Len(cin) - 4 : cin[i] = Lit(jsonHead)}

\* C15: the bytes that Send has written for a Response whose result is a
\* json.RawMessage (the five writes of sendJSON) are the bytes the encoder
\* writes for the same Response.
C15_SameBytes ==
  \A h \in HandlerIDs :
    handlers[h].pc = "done" /\ FastPath(handlers[h].resp) =>
      \E i \in Envelopes :
        /\ cin[i + 1] = Digits(handlers[h].resp.ID)
        /\ cin[i + 3] = Bytes(handlers[h].resp.Result.v)
        /\ StreamBytes(SubSeq(cin, i, i + 4)) = WriteBytes(EncodeResponse(handlers[h].resp))

\* The i-th frame has arrived, and it and the frames before it are requests.
Arrived(i) ==
  \/ Len(handlers) >= i
  \/ /\ srv = "decode" /\ Len(handlers) + Len(cout) >= i
     /\ \A j \in 1 .. (i - Len(handlers)) : DecodeRequest(cout[j]).ok

\* C16: whatever the handler goroutines are doing, the loop can decode a
\* frame that has arrived; and with the handler of the first request free
\* never to return, every later request that arrives is dispatched and comes
\* to have its response written.
C16_LoopNeverWaits ==
  /\ [](srv = "decode" /\ cout # <<>> => ENABLED ServerRead)
  /\ \A i \in 2 .. MaxRequests :
       Arrived(i) ~> (Len(handlers) >= i /\ handlers[i].pc = "done")

\* The handler of the first request has not returned, and the responses of
\* two later requests are on the stream.
C16_Witness ==
  /\ Len(handlers) = 3 /\ handlers[1].pc = "run"
  /\ handlers[2].pc = "done" /\ handlers[3].pc = "done"
  /\ cin # <<>>

\* The shape of a frame on the wire: it has a method that is not empty.
HasMethod(w) == "method" \in DOMAIN w /\ w.method.k = "str" /\ w.method.s # ""
\* The id of a frame on the wire, as an int.
FrameID(w) == IF "id" \in DOMAIN w /\ w.id.k = "num" THEN w.id.n ELSE 0
\* The results of the response frames of id that the peer may write.
ResultsFor(id) ==
  {IF Field(w, "result") = Absent THEN Nil ELSE Raw(w.result) :
     w \in {x \in PeerInputs : x.k # "lit" /\ ~HasMethod(x) /\ FrameID(x) = id}}

\* C11: ClientServer.Handle routes a decoded frame by its method alone: with
\* a method, whatever else it has, it starts a handler goroutine for that
\* method, params and id and no response goroutine, and leaves both maps as
\* they are; with none, it starts a response goroutine for its id and no
\* handler. No step of a handler goroutine touches the maps, the calls or the
\* callbacks; no step of a response goroutine touches a handler or the stream.
\* A call that returns has the response frame of its own ID, and a handler
\* goroutine sends the handler's outcome for its own request under its ID.
C11_RoutedByShape ==
  /\ [][\A w \in PeerInputs :
          ClientServerHandle(w) /\ DecodeRequestOrResponse(w).ok =>
            IF HasMethod(w)
            THEN /\ handlers' = Append(handlers,
                        Handler("run", request(w.method.s, Raw(w.params), FrameID(w)),
                                Response(0, Nil, "")))
                      \/ handlers' = Append(handlers,
                        Handler("run", request(w.method.s, Nil, FrameID(w)),
                                Response(0, Nil, "")))
                 /\ resps' = resps /\ requests' = requests /\ waits' = waits
            ELSE /\ Len(resps') = Len(resps) + 1
                 /\ resps'[Len(resps')].pc = "lock"
                 /\ resps'[Len(resps')].resp.ID = FrameID(w)
                 /\ handlers' = handlers /\ requests' = requests /\ waits' = waits]_vars
  /\ [][(\E h \in HandlerIDs : handlers'[h] # handlers[h]) =>
          UNCHANGED <<requests, waits, calls, cbs, resps, mu>>]_vars
  /\ [][(\E r \in ResponderIDs : resps'[r] # resps[r]) =>
          UNCHANGED <<handlers, cin, encoderLock>>]_vars
  /\ [](/\ \A c \in Calls :
             calls[c].pc = "done" =>
               /\ calls[c].via = "frame" /\ calls[c].resp.ID = calls[c].id
               /\ calls[c].ret.err = Nil /\ calls[c].ret.result \in ResultsFor(calls[c].id)
        /\ \A h \in HandlerIDs :
             /\ handlers[h].req.Method # ""
             /\ handlers[h].pc # "run" =>
                  handlers[h].resp = Response(handlers[h].req.ID, Outcome(h).result, ""))

\* A request of id 0 and the response to the call of ID 0 are under way at
\* the same time: the handler has returned 11 for the one, and the other is
\* being handed to its call.
C11_Witness ==
  \E h \in HandlerIDs, r \in ResponderIDs :
    /\ handlers[h].pc = "send" /\ handlers[h].req.ID = 0
    /\ handlers[h].resp.Result = GoInt(11)
    /\ resps[r].pc = "send" /\ resps[r].resp.ID = 0 /\ calls[resps[r].ch].id = 0

\* C13: what a ClientServer has written to its conn is whole frames one after
\* another: nothing written by Request lies between the five writes of an
\* envelope.
C13_Serialized == WellFramed(cin)

\* C21: every key of the pending-call map is >= 0 and every key of the wait
\* map is < 0.
C21_BySign ==
  /\ \A id \in DOMAIN requests : id >= 0
  /\ \A id \in DOMAIN waits : id < 0

\* C21 for the pending-call map alone: Request registers only IDs >= 0.
C21_RequestsNonNegative == \A id \in DOMAIN requests : id >= 0

\* C22: no response on the stream has both a result and an error.
C22_ErrorOrResult ==
  \A i \in 1 .. Len(cin) :
    cin[i].k = "obj" => ~(cin[i].result # Absent /\ cin[i].error # Absent)

\* C23: a Close call that has taken the mutex comes to release it, close the
\* stream and return.
C23_CloseReturns ==
  \A k \in Closers : (closers[k].pc = "range") ~> (closers[k].pc = "done")

\* C24: when the Encode of a Request call writes nothing (the params cannot
\* be encoded, or the stream is closed), the call returns an error and its
\* entry is taken out of the pending-call map.
C24_FailedWriteReturns ==
  [][\A c \in Calls :
       calls[c].pc = "encode" /\ calls'[c].pc # "encode" /\ cout' = cout =>
         /\ calls'[c].pc = "done" /\ calls'[c].ret.err # Nil
         /\ calls[c].id \notin DOMAIN requests']_vars

\* The frame has an id that is an integer.
HasIntID(w) == "id" \in DOMAIN w /\ w.id.k = "num"
\* The results of the response frames the peer may write with no id, or with
\* one that is no integer (no other frame carries them).
NoIDResults ==
  {Raw(w.result) : w \in {x \in PeerInputs : x.k = "obj" /\ ~HasIntID(x)}}

\* C25: no Request call is handed the response of a frame that had no id, or
\* an id that is not an integer.
C25_NoIDNotDelivered ==
  \A c \in Calls : calls[c].pc = "done" => calls[c].resp.Result \notin NoIDResults

====
